---- MODULE Spec2Model ----
(***************************************************************************)
(* A model of psycopg3/dbapi20.py: the DBAPI 2.0 compatibility objects.    *)
(*                                                                         *)
(*   - DBAPITypeObject: a named tuple of oids compared against integers;   *)
(*   - Binary and its two dumpers (binary and text format);                *)
(*   - the *FromTicks constructors.                                        *)
(*                                                                         *)
(* Python values are records tagged with their type, [type |-> "int",      *)
(* val |-> 5]; bytes are sequences of integers 0..255; text is a sequence  *)
(* of one-character strings.  An operation's outcome is a record with an   *)
(* ok field: [ok |-> TRUE, val |-> v] or [ok |-> FALSE, exc |-> name].     *)
(*                                                                         *)
(* The functions of the module share no state, so there is one             *)
(* specification per group: SpecTypes, SpecDump, SpecRepr, SpecTicks.      *)
(* The variable `last` records the operation just performed, its           *)
(* arguments and its outcome.                                              *)
(***************************************************************************)
EXTENDS Integers, Sequences, FiniteSets

VARIABLES
    typeobj,    \* the DBAPITypeObject bound to a module-level name, or NoneValue
    ctorNames,  \* the type_names the object in typeobj was constructed from
    context,    \* the AdaptContext handed to dumper constructors
    dumper,     \* the dumper object in use, or NoneValue
    wrapper,    \* the Binary object in use, or NoneValue
    tz,         \* the host's time zone rule
    last        \* the operation just performed and its outcome

vars == <<typeobj, ctorNames, context, dumper, wrapper, tz, last>>

NoneValue == [type |-> "NoneType"]

NotImplemented == [type |-> "NotImplementedType"]

PyBool(b) == [type |-> "bool", val |-> b]

Ok(v) == [ok |-> TRUE, val |-> v]

Raise(e) == [ok |-> FALSE, exc |-> e]

Range(s) == {s[i] : i \in DOMAIN s}

\* The sequences over S of length at most n.
SeqUpTo(S, n) == UNION {[1..k -> S] : k \in 0..n}

(***************************************************************************)
(* The oid registry (psycopg3.oids.postgres_types).                        *)
(***************************************************************************)

\* The names the module's own categories use, with PostgreSQL's oids.
builtins ==
    [n \in {"bytea", "int2", "int4", "oid", "text", "varchar"} |->
        CASE n = "bytea" -> 17
          [] n = "int2" -> 21
          [] n = "int4" -> 23
          [] n = "oid" -> 26
          [] n = "text" -> 25
          [] n = "varchar" -> 1043]

\* builtins[n]: the registry's record for a name, an error for an absent one.
RegistryLookup(n) ==
    IF n \in DOMAIN builtins
    THEN Ok([name |-> n, oid |-> builtins[n]])
    ELSE Raise("UnknownTypeName")

(***************************************************************************)
(* DBAPITypeObject                                                         *)
(***************************************************************************)

\* A buggy resolution that skips the names the registry does not know.
RECURSIVE ResolveOidsSkipUnknown(_, _)
ResolveOidsSkipUnknown(type_names, acc) ==
    IF type_names = <<>>
    THEN Ok(acc)
    ELSE LET r == RegistryLookup(Head(type_names))
         IN  ResolveOidsSkipUnknown(Tail(type_names),
                 IF r.ok THEN Append(acc, r.val.oid) ELSE acc)

\* tuple(builtins[n].oid for n in type_names): the names are resolved in
\* order and the first absent one ends the construction.
RECURSIVE ResolveOids(_, _)
ResolveOids(type_names, acc) ==
    IF type_names = <<>>
    THEN Ok(acc)
    ELSE LET r == RegistryLookup(Head(type_names))
         IN  IF r.ok
             THEN ResolveOids(Tail(type_names), Append(acc, r.val.oid))
             ELSE r

\* DBAPITypeObject.__init__: the object, or the exception that ended it.
DBAPITypeObject_init(name, type_names) ==
    LET r == ResolveOids(type_names, <<>>)
    IN  IF r.ok
        THEN Ok([type |-> "DBAPITypeObject", name |-> name, values |-> r.val])
        ELSE r

\* isinstance(other, int): bool is a subclass of int.
IsInstanceInt(other) == other.type \in {"int", "bool"}

\* The integer a Python int or bool compares as.
IntValue(other) ==
    IF other.type = "bool" THEN (IF other.val THEN 1 ELSE 0) ELSE other.val

\* A buggy __eq__ that answers False for operands that are not integers.
EqFalseForForeign(self, other) ==
    IF IsInstanceInt(other)
    THEN PyBool(IntValue(other) \in Range(self.values))
    ELSE PyBool(FALSE)

\* DBAPITypeObject.__eq__
DBAPITypeObject_eq(self, other) ==
    IF IsInstanceInt(other)
    THEN PyBool(IntValue(other) \in Range(self.values))
    ELSE NotImplemented

\* DBAPITypeObject.__ne__
DBAPITypeObject_ne(self, other) ==
    IF IsInstanceInt(other)
    THEN PyBool(IntValue(other) \notin Range(self.values))
    ELSE NotImplemented

\* The longest type_names list tried.
MaxNames == 2

\* Type names: names of the registry and one it does not hold.
NamePool == {"bytea", "text", "varchar", "regnosuch"}

\* Operands of == and !=: integers in and out of the registry, and values
\* of other types.
OperandPool ==
    {[type |-> "int", val |-> i] : i \in {0, 1, 17, 25, 26, 1043, 1082}}
    \cup {[type |-> "bool", val |-> b] : b \in BOOLEAN}
    \cup {[type |-> "float", val |-> 17], [type |-> "str", val |-> "bytea"],
          NoneValue}

InitTypes ==
    /\ typeobj = NoneValue
    /\ ctorNames = <<>>
    /\ context = NoneValue
    /\ dumper = NoneValue
    /\ wrapper = NoneValue
    /\ tz = NoneValue
    /\ last = [op |-> "start"]

\* X = DBAPITypeObject(name, type_names): X is bound only if __init__ returns.
NewTypeObject ==
    \E type_names \in SeqUpTo(NamePool, MaxNames) :
        LET r == DBAPITypeObject_init("CATEGORY", type_names)
        IN  /\ typeobj' = IF r.ok THEN r.val ELSE typeobj
            /\ ctorNames' = IF r.ok THEN type_names ELSE ctorNames
            /\ last' = [op |-> "new", type_names |-> type_names, result |-> r]
            /\ UNCHANGED <<context, dumper, wrapper, tz>>

\* X.__eq__(other), the call that the comparison X == other makes
TypeEq ==
    /\ typeobj # NoneValue
    /\ \E other \in OperandPool :
        last' = [op |-> "eq", other |-> other,
                 result |-> DBAPITypeObject_eq(typeobj, other)]
    /\ UNCHANGED <<typeobj, ctorNames, context, dumper, wrapper, tz>>

\* X.__ne__(other), the call that the comparison X != other makes
TypeNe ==
    /\ typeobj # NoneValue
    /\ \E other \in OperandPool :
        last' = [op |-> "ne", other |-> other,
                 result |-> DBAPITypeObject_ne(typeobj, other)]
    /\ UNCHANGED <<typeobj, ctorNames, context, dumper, wrapper, tz>>

NextTypes == NewTypeObject \/ TypeEq \/ TypeNe

SpecTypes == InitTypes /\ [][NextTypes]_vars

\* The oids of the names the current object was constructed from.
CtorOids == {builtins[ctorNames[i]] : i \in DOMAIN ctorNames}

\* C1: the comparison of a category with x, as __eq__ answers it, is true iff
\* the integer x is one of the oids resolved from the name list given to the
\* constructor, false for any other integer, and NotImplemented (neither a
\* boolean nor an exception) for an operand that is not an integer.
C1_EqIsMembership ==
    last.op = "eq" =>
        IF last.other.type \in {"int", "bool"}
        THEN last.result = PyBool(IntValue(last.other) \in CtorOids)
        ELSE last.result = NotImplemented

C1_Witness ==
    /\ last.op = "eq"
    /\ Len(ctorNames) = 2
    /\ \/ last.other = [type |-> "int", val |-> 1043]
          /\ last.result = PyBool(TRUE)
       \/ last.other = [type |-> "str", val |-> "bytea"]
          /\ last.result = NotImplemented /\ 17 \in CtorOids

\* C10: a construction fails with UnknownTypeName iff some name of the list,
\* at any position, is absent from the registry; a failed construction binds
\* no object, and a successful one holds exactly the oids of the names, in
\* order.
C10_UnknownNameFails ==
    last.op = "new" =>
        LET names == last.type_names
            absent == \E i \in DOMAIN names : names[i] \notin DOMAIN builtins
        IN  /\ absent => /\ last.result = Raise("UnknownTypeName")
                         /\ ctorNames # names
            /\ ~absent => /\ last.result.ok
                          /\ typeobj = last.result.val
                          /\ ctorNames = names
                          /\ typeobj.values =
                                 [i \in DOMAIN names |-> builtins[names[i]]]
            /\ typeobj # NoneValue =>
                   /\ Len(typeobj.values) = Len(ctorNames)
                   /\ \A i \in DOMAIN ctorNames :
                          /\ ctorNames[i] \in DOMAIN builtins
                          /\ typeobj.values[i] = builtins[ctorNames[i]]

C10_Witness ==
    /\ last.op = "new"
    /\ last.type_names = <<"text", "regnosuch">>
    /\ ~last.result.ok
    /\ typeobj # NoneValue

(***************************************************************************)
(* Binary and its dumpers                                                  *)
(***************************************************************************)

\* Binary.__init__
Binary_init(obj) == [type |-> "Binary", obj |-> obj]

\* bytes(x) for the values that are not bytes already.  An integer (a bool
\* included) asks for that many zero bytes; a sequence must hold integers of
\* range(256); text, None and floats are refused.
PyBytes(x) ==
    CASE x.type \in {"bytes", "bytearray"} -> Ok([type |-> "bytes", val |-> x.val])
      [] x.type \in {"int", "bool"} ->
            IF IntValue(x) < 0
            THEN Raise("ValueError")
            ELSE Ok([type |-> "bytes", val |-> [i \in 1..IntValue(x) |-> 0]])
      [] x.type = "list" ->
            IF \A i \in DOMAIN x.val : x.val[i] \in 0..255
            THEN Ok([type |-> "bytes", val |-> x.val])
            ELSE Raise("ValueError")
      [] OTHER -> Raise("TypeError")

\* A dump that escapes backslashes in the bytes it was given.
DumpDoublingBackslash(self, obj) ==
    LET wrapped == obj.obj
        RECURSIVE Dbl(_)
        Dbl(s) == IF s = <<>> THEN <<>>
                  ELSE (IF Head(s) = 92 THEN <<92, 92>> ELSE <<Head(s)>>)
                       \o Dbl(Tail(s))
    IN  IF wrapped.type = "bytes"
        THEN Ok([type |-> "bytes", val |-> Dbl(wrapped.val)])
        ELSE PyBytes(wrapped)

\* BinaryBinaryDumper.dump
BinaryBinaryDumper_dump(self, obj) ==
    LET wrapped == obj.obj
    IN  IF wrapped.type = "bytes"
        THEN Ok(wrapped)
        ELSE PyBytes(wrapped)

\* Dumper.__init__: the connection is the context's, if there is a context.
Dumper_init(class, format, context_) ==
    [type |-> class, format |-> format, oid |-> builtins["bytea"],
     connection |-> IF context_ # NoneValue THEN context_.connection
                    ELSE NoneValue]

\* BinaryBinaryDumper(cls, context)
BinaryBinaryDumper_init(context_) ==
    Ok(Dumper_init("BinaryBinaryDumper", "BINARY", context_))

\* pq.Escaping(conn)
Escaping(conn) == [type |-> "Escaping", conn |-> conn]

\* A constructor that reads the connection's pgconn without testing that
\* there is a connection.
TextDumperInitUnguarded(context_) ==
    LET self == Dumper_init("BinaryTextDumper", "TEXT", context_)
    IN  IF self.connection # NoneValue
        THEN Ok([type |-> self.type, format |-> self.format, oid |-> self.oid,
                 connection |-> self.connection,
                 esc |-> Escaping(self.connection.pgconn)])
        ELSE Raise("AttributeError")

\* BinaryTextDumper.__init__
BinaryTextDumper_init(context_) ==
    LET self == Dumper_init("BinaryTextDumper", "TEXT", context_)
    IN  Ok([type |-> self.type, format |-> self.format, oid |-> self.oid,
            connection |-> self.connection,
            esc |-> Escaping(IF self.connection # NoneValue
                             THEN self.connection.pgconn
                             ELSE NoneValue)])

HexDigit(d) == IF d < 10 THEN 48 + d ELSE 87 + d

\* libpq's bytea escaping.  With a connection: the hex format, the leading
\* backslash doubled unless the connection has standard_conforming_strings.
\* Without one: the escape format, with backslashes doubled.
RECURSIVE EscapeFormat(_, _)
EscapeFormat(data, bslash) ==
    IF data = <<>>
    THEN <<>>
    ELSE LET c == Head(data)
             e == IF c < 32 \/ c > 126
                  THEN bslash \o <<48 + (c \div 64), 48 + ((c \div 8) % 8),
                                   48 + (c % 8)>>
                  ELSE IF c = 39 THEN <<39, 39>>
                  ELSE IF c = 92 THEN bslash \o bslash
                  ELSE <<c>>
         IN  e \o EscapeFormat(Tail(data), bslash)

RECURSIVE HexEncode(_)
HexEncode(data) ==
    IF data = <<>>
    THEN <<>>
    ELSE <<HexDigit(Head(data) \div 16), HexDigit(Head(data) % 16)>>
         \o HexEncode(Tail(data))

\* Escaping.escape_bytea
escape_bytea(esc, data) ==
    [type |-> "bytes",
     val |-> IF esc.conn # NoneValue
             THEN (IF esc.conn.std_strings THEN <<92>> ELSE <<92, 92>>)
                  \o <<120>> \o HexEncode(data.val)
             ELSE EscapeFormat(data.val, <<92, 92>>)]

\* A text dump that builds a new escaping engine from the current context on
\* every call.
TextDumpRefetching(self, obj) ==
    LET esc == Escaping(IF context # NoneValue /\ context.connection # NoneValue
                        THEN context.connection.pgconn ELSE NoneValue)
        data == BinaryBinaryDumper_dump(self, obj)
    IN  [self |-> [self EXCEPT !.esc = esc],
         result |-> IF data.ok THEN Ok(escape_bytea(esc, data.val)) ELSE data]

\* BinaryTextDumper.dump: the dumper after the call and the call's outcome.
BinaryTextDumper_dump(self, obj) ==
    LET data == BinaryBinaryDumper_dump(self, obj)
    IN  [self |-> self,
         result |-> IF data.ok THEN Ok(escape_bytea(self.esc, data.val))
                    ELSE data]

\* The longest byte string wrapped.
MaxBytes == 2

\* NUL, the backslash and 0xff; and two strings with printable bytes.
ByteAlphabet == {0, 92, 255}

BytesPool ==
    {[type |-> "bytes", val |-> b] :
        b \in SeqUpTo(ByteAlphabet, MaxBytes) \cup {<<65>>, <<39, 65, 0>>}}

\* Payloads: byte strings, and values of other types.
PayloadPool ==
    BytesPool
    \cup {[type |-> "bytearray", val |-> <<0, 255>>]}
    \cup {[type |-> "int", val |-> i] : i \in {-1, 0, 3}}
    \cup {[type |-> "bool", val |-> TRUE]}
    \cup {[type |-> "str", val |-> s] : s \in {<<>>, <<"a", "b">>}}
    \cup {[type |-> "list", val |-> l] : l \in {<<>>, <<1, 255>>, <<256>>, <<-1>>}}
    \cup {[type |-> "float", val |-> 1], NoneValue}

PgConns == {[type |-> "PGconn", id |-> 1, std_strings |-> TRUE],
            [type |-> "PGconn", id |-> 2, std_strings |-> FALSE]}

\* No context, a context without a connection, a context with a connection.
ContextPool ==
    {NoneValue, [type |-> "AdaptContext", connection |-> NoneValue]}
    \cup {[type |-> "AdaptContext",
           connection |-> [type |-> "Connection", pgconn |-> c]] : c \in PgConns}

InitDump ==
    /\ typeobj = NoneValue
    /\ ctorNames = <<>>
    /\ context = NoneValue
    /\ dumper = NoneValue
    /\ wrapper = NoneValue
    /\ tz = NoneValue
    /\ last = [op |-> "start"]

\* The caller's context changes: a connection is made, replaced or dropped.
SetContext ==
    /\ \E c \in ContextPool : c # context /\ context' = c
    /\ last' = [op |-> "set_context"]
    /\ UNCHANGED <<typeobj, ctorNames, dumper, wrapper, tz>>

\* Binary(obj)
Wrap ==
    /\ \E obj \in PayloadPool : wrapper' = Binary_init(obj)
    /\ last' = [op |-> "wrap"]
    /\ UNCHANGED <<typeobj, ctorNames, context, dumper, tz>>

\* BinaryBinaryDumper(Binary, context)
NewBinaryDumper ==
    LET r == BinaryBinaryDumper_init(context)
    IN  /\ dumper' = IF r.ok THEN r.val ELSE dumper
        /\ last' = [op |-> "new_binary", context |-> context, result |-> r]
        /\ UNCHANGED <<typeobj, ctorNames, context, wrapper, tz>>

\* BinaryTextDumper(Binary, context)
NewTextDumper ==
    LET r == BinaryTextDumper_init(context)
    IN  /\ dumper' = IF r.ok THEN r.val ELSE dumper
        /\ last' = [op |-> "new_text", context |-> context, result |-> r]
        /\ UNCHANGED <<typeobj, ctorNames, context, wrapper, tz>>

\* dumper.dump(wrapper), the dumper being a BinaryBinaryDumper
DumpBinary ==
    /\ dumper # NoneValue /\ dumper.type = "BinaryBinaryDumper"
    /\ wrapper # NoneValue
    /\ last' = [op |-> "dump_binary", arg |-> wrapper.obj,
                result |-> BinaryBinaryDumper_dump(dumper, wrapper)]
    /\ UNCHANGED <<typeobj, ctorNames, context, dumper, wrapper, tz>>

\* dumper.dump(wrapper), the dumper being a BinaryTextDumper
DumpText ==
    /\ dumper # NoneValue /\ dumper.type = "BinaryTextDumper"
    /\ wrapper # NoneValue
    /\ LET r == BinaryTextDumper_dump(dumper, wrapper)
       IN  /\ dumper' = r.self
           /\ last' = [op |-> "dump_text", arg |-> wrapper.obj,
                       result |-> r.result]
    /\ UNCHANGED <<typeobj, ctorNames, context, wrapper, tz>>

NextDump ==
    SetContext \/ Wrap \/ NewBinaryDumper \/ NewTextDumper \/ DumpBinary
    \/ DumpText

SpecDump == InitDump /\ [][NextDump]_vars

\* A dumper built from a context that holds no connection.
Connectionless(ctx) == ctx = NoneValue \/ ctx.connection = NoneValue

\* C2: a BinaryTextDumper built with no context, or with a context that has
\* no connection, is always constructed, its escaping engine is the
\* connection-free one, and its dump of a byte string b is that engine's
\* escape_bytea of the binary dumper's output for b.
C2_ConnectionlessTextDump ==
    /\ last.op = "new_text" /\ Connectionless(last.context) =>
           /\ last.result.ok
           /\ dumper = last.result.val
           /\ dumper.esc = Escaping(NoneValue)
    /\ last.op = "dump_text" /\ dumper.connection = NoneValue
          /\ last.arg.type = "bytes" =>
           /\ last.result.ok
           /\ dumper.esc = Escaping(NoneValue)
           /\ last.result.val =
                  escape_bytea(dumper.esc,
                               BinaryBinaryDumper_dump(dumper, wrapper).val)

C2_Witness ==
    /\ last.op = "dump_text"
    /\ dumper.connection = NoneValue
    /\ context # NoneValue /\ context.connection = NoneValue
    /\ last.arg = [type |-> "bytes", val |-> <<0, 255>>]
    /\ last.result.ok
    /\ last.result.val.val = <<92, 92, 48, 48, 48, 92, 92, 51, 55, 55>>

\* The payloads that stand for a byte string: byte strings, byte arrays and
\* sequences of integers of range(256).
RepresentsBytes(obj) ==
    \/ obj.type \in {"bytes", "bytearray"}
    \/ obj.type = "list" /\ \A i \in DOMAIN obj.val : obj.val[i] \in 0..255

\* C3: the binary dump of a payload that is not a byte string and does not
\* stand for one (an integer, a text string) ends in an error, never in some
\* byte string.
C3_ForeignPayloadFails ==
    last.op = "dump_binary" /\ ~RepresentsBytes(last.arg) => ~last.result.ok

\* C8: the binary dump of a payload that is a byte string returns that byte
\* string, unescaped, and the wrapper still holds it.
C8_BytesUnchanged ==
    last.op = "dump_binary" /\ last.arg.type = "bytes" =>
        /\ last.result = Ok(last.arg)
        /\ wrapper.obj = last.arg

C8_Witness ==
    /\ last.op = "dump_binary"
    /\ last.arg = [type |-> "bytes", val |-> <<0, 255>>]
    /\ last.result.ok
    /\ last.result.val.val = <<0, 255>>
    /\ wrapper.obj.val = <<0, 255>>

\* C9: a text dumper's escaping engine and target oid are those of its
\* construction: no dump and no change of the context changes the dumper.
C9_EscapingResolvedOnce ==
    [][/\ dumper # NoneValue
       /\ dumper.type = "BinaryTextDumper"
       /\ last'.op \in {"dump_text", "set_context", "wrap"}
       => /\ dumper' = dumper
          /\ dumper'.oid = builtins["bytea"]]_vars

C9_Witness ==
    /\ last.op = "dump_text"
    /\ dumper.esc.conn # NoneValue
    /\ dumper.esc.conn.id = 1
    /\ context # NoneValue /\ context.connection # NoneValue
    /\ context.connection.pgconn.id = 2
    /\ last.result.ok

(***************************************************************************)
(* Binary.__repr__                                                         *)
(***************************************************************************)

\* The printable ASCII characters, from the space (32) to the tilde (126).
\* Every character is written as itself but the two that a string of this
\* language cannot hold, which are written by name.
Printable ==
    <<
      " ", "!", "\"", "#", "$", "%", "&", "apostrophe", "(", ")", "*", "+",
      ",", "-", ".", "/", "0", "1", "2", "3", "4", "5", "6", "7",
      "8", "9", ":", ";", "<", "=", ">", "?", "@", "A", "B", "C",
      "D", "E", "F", "G", "H", "I", "J", "K", "L", "M", "N", "O",
      "P", "Q", "R", "S", "T", "U", "V", "W", "X", "Y", "Z", "[",
      "\\", "]", "^", "_", "backtick", "a", "b", "c", "d", "e", "f", "g",
      "h", "i", "j", "k", "l", "m", "n", "o", "p", "q", "r", "s",
      "t", "u", "v", "w", "x", "y", "z", "{", "|", "}", "~">>

\* chr(c) for a printable c
Chr(c) == Printable[c - 31]

\* str(n) for an integer n
RECURSIVE Decimal(_)
Decimal(n) ==
    IF n < 0 THEN <<"-">> \o Decimal(-n)
    ELSE IF n < 10 THEN <<Chr(48 + n)>>
    ELSE Decimal(n \div 10) \o <<Chr(48 + (n % 10))>>

\* One byte of repr(bytes), within the quote character q.
ReprByte(c, q) ==
    CASE c = q \/ c = 92 -> <<"\\", Chr(c)>>
      [] c = 9 -> <<"\\", "t">>
      [] c = 10 -> <<"\\", "n">>
      [] c = 13 -> <<"\\", "r">>
      [] c < 32 \/ c >= 127 ->
            <<"\\", "x", Chr(HexDigit(c \div 16)), Chr(HexDigit(c % 16))>>
      [] OTHER -> <<Chr(c)>>

RECURSIVE ReprBytesBody(_, _)
ReprBytesBody(b, q) ==
    IF b = <<>> THEN <<>> ELSE ReprByte(Head(b), q) \o ReprBytesBody(Tail(b), q)

RECURSIVE ReprItems(_)
ReprItems(l) ==
    IF l = <<>> THEN <<>>
    ELSE Decimal(Head(l))
         \o (IF Tail(l) = <<>> THEN <<>> ELSE <<",", " ">> \o ReprItems(Tail(l)))

\* repr(obj).  Bytes are written in single quotes, or in double quotes if
\* they hold a single quote (39) and no double quote (34); the text strings
\* of the model hold letters only, which repr leaves as they are.
PyRepr(obj) ==
    CASE obj.type = "bytes" ->
            (LET q == IF 39 \in Range(obj.val) /\ 34 \notin Range(obj.val)
                      THEN 34 ELSE 39
             IN  <<"b", Chr(q)>> \o ReprBytesBody(obj.val, q) \o <<Chr(q)>>)
      [] obj.type = "int" -> Decimal(obj.val)
      [] obj.type = "bool" ->
            (IF obj.val THEN <<"T", "r", "u", "e">>
             ELSE <<"F", "a", "l", "s", "e">>)
      [] obj.type = "str" -> (<<Chr(39)>> \o obj.val \o <<Chr(39)>>)
      [] obj.type = "list" -> (<<"[">> \o ReprItems(obj.val) \o <<"]">>)
      [] OTHER -> <<"N", "o", "n", "e">>

\* A __repr__ that abbreviates from 40 characters on.
ReprAbbreviatingAt40(self) ==
    LET sobj == PyRepr(self.obj)
        shown == IF Len(sobj) >= 40
                 THEN SubSeq(sobj, 1, 35) \o <<" ", ".", ".", ".", " ", "(">>
                      \o Decimal(Len(sobj)) \o <<" ", "b", "y", "t", "e", "s", "c", "h", "a", "r", "s", ")">>
                 ELSE sobj
    IN  <<"B", "i", "n", "a", "r", "y">> \o <<"(">> \o shown \o <<")">>

\* Binary.__repr__; the class name is that of Binary.
Binary_repr(self) ==
    LET sobj == PyRepr(self.obj)
        shown == IF Len(sobj) > 40
                 THEN SubSeq(sobj, 1, 35) \o <<" ", ".", ".", ".", " ", "(">>
                      \o Decimal(Len(sobj)) \o <<" ", "b", "y", "t", "e", "s", "c", "h", "a", "r", "s", ")">>
                 ELSE sobj
    IN  <<"B", "i", "n", "a", "r", "y">> \o <<"(">> \o shown \o <<")">>

\* The longest run of one byte in a payload whose repr is taken.
MaxRun == 39

\* Payloads whose representations are 0 to some 45 characters long: a run of
\* A's and an ending that takes 0, 1, 2 or 4 characters, and short values of
\* other types.
ReprPool ==
    {[type |-> "bytes", val |-> [i \in 1..n |-> 65] \o t] :
        n \in 0..MaxRun, t \in {<<>>, <<0>>, <<92>>, <<10>>, <<39>>, <<39, 34>>}}
    \cup {[type |-> "str", val |-> [i \in 1..n |-> "a"]] : n \in 0..MaxRun}
    \cup {[type |-> "int", val |-> -12], [type |-> "bool", val |-> TRUE],
          [type |-> "list", val |-> <<1, 255>>], NoneValue}

InitRepr ==
    /\ typeobj = NoneValue
    /\ ctorNames = <<>>
    /\ context = NoneValue
    /\ dumper = NoneValue
    /\ wrapper = NoneValue
    /\ tz = NoneValue
    /\ last = [op |-> "start"]

\* Binary(obj)
WrapForRepr ==
    /\ \E obj \in ReprPool : wrapper' = Binary_init(obj)
    /\ last' = [op |-> "wrap"]
    /\ UNCHANGED <<typeobj, ctorNames, context, dumper, tz>>

\* repr(wrapper)
Repr ==
    /\ wrapper # NoneValue
    /\ last' = [op |-> "repr", arg |-> wrapper.obj, result |-> Binary_repr(wrapper)]
    /\ UNCHANGED <<typeobj, ctorNames, context, dumper, wrapper, tz>>

NextRepr == WrapForRepr \/ Repr

SpecRepr == InitRepr /\ [][NextRepr]_vars

\* What the claim gives for a representation r: r up to 40 characters, and
\* beyond that its first 35 characters and the count.
Abbreviated(r) ==
    IF Len(r) <= 40
    THEN r
    ELSE SubSeq(r, 1, 35) \o <<" ", ".", ".", ".", " ", "(">> \o Decimal(Len(r)) \o <<" ", "b", "y", "t", "e", "s", "c", "h", "a", "r", "s", ")">>

\* C7 as stated: the diagnostic string is the payload's representation r if
\* r has at most 40 characters, and otherwise the first 35 characters of r
\* followed by " ... (<N> byteschars)", N being the length of r.
C7_ReprIsAbbreviation ==
    last.op = "repr" => last.result = Abbreviated(PyRepr(last.arg))

\* C7 as amended: the diagnostic string is "Binary(" and ")" around the
\* payload's representation r if r has at most 40 characters, and otherwise
\* around the first 35 characters of r followed by " ... (<N> byteschars)".
C7_ReprIsWrappedAbbreviation ==
    last.op = "repr" =>
        /\ last.result = <<"B", "i", "n", "a", "r", "y">> \o <<"(">> \o Abbreviated(PyRepr(last.arg)) \o <<")">>
        /\ Len(PyRepr(last.arg)) <= 40 => Len(last.result) = Len(PyRepr(last.arg)) + 8
        /\ Len(PyRepr(last.arg)) >= 41 => Len(last.result) = 35 + 20 + 8

C7_Witness ==
    /\ last.op = "repr"
    /\ Len(PyRepr(last.arg)) = 41
    /\ last.arg.type = "bytes"
    /\ SubSeq(last.result, 1, 9) = <<"B", "i", "n", "a", "r", "y", "(", "b", "apostrophe">>
    /\ SubSeq(last.result, 43, 63) =
           <<" ", ".", ".", ".", " ", "(", "4", "1", " ", "b", "y", "t", "e",
             "s", "c", "h", "a", "r", "s", ")", ")">>

(***************************************************************************)
(* TimestampFromTicks, DateFromTicks, TimeFromTicks                        *)
(*                                                                         *)
(* A ticks value is the float whole + frac / TickUnit, held as its whole    *)
(* seconds, rounded down, and its fraction in TickUnit-ths of a second     *)
(* (tenths of a microsecond): [whole |-> -1, frac |-> 5000000] is -0.5.    *)
(***************************************************************************)

TickUnit == 10000000

\* math.floor(ticks)
PyFloor(ticks) == ticks.whole

\* ticks - secs for an integer secs, in TickUnit-ths of a second
MinusSecs(ticks, secs) == (ticks.whole - secs) * TickUnit + ticks.frac

\* The calendar date of a day number, day 0 being 1970-01-01 (the proleptic
\* Gregorian calendar that localtime and datetime share).
CivilFromDays(days) ==
    LET z == days + 719468
        era == z \div 146097
        doe == z - era * 146097
        yoe == (doe - doe \div 1460 + doe \div 36524 - doe \div 146096) \div 365
        doy == doe - (365 * yoe + yoe \div 4 - yoe \div 100)
        mp == (5 * doy + 2) \div 153
        d == doy - (153 * mp + 2) \div 5 + 1
        m == IF mp < 10 THEN mp + 3 ELSE mp - 9
        y == yoe + era * 400 + (IF m <= 2 THEN 1 ELSE 0)
    IN  [year |-> y, month |-> m, day |-> d]

\* tm_gmtoff at an instant: the zone's daylight offset within its daylight
\* period, its standard offset outside.
GmtOff(secs) ==
    IF tz.dst_from <= secs /\ secs < tz.dst_until THEN tz.dst ELSE tz.std

\* time.localtime(ticks): a float is rounded down to the second; the fields
\* are those of the local civil time at that second.
PyLocaltime(ticks) ==
    LET when == PyFloor(ticks)
        off == GmtOff(when)
        local == when + off
        date == CivilFromDays(local \div 86400)
        sod == local % 86400
    IN  [tm_year |-> date.year, tm_mon |-> date.month, tm_mday |-> date.day,
         tm_hour |-> sod \div 3600, tm_min |-> (sod \div 60) % 60,
         tm_sec |-> sod % 60, tm_gmtoff |-> off]

\* round(frac * 1_000_000) for frac a count of TickUnit-ths of a second: to
\* the nearest integer, a half going to the even one.
RoundMicros(frac) ==
    LET scale == TickUnit \div 1000000
        q == frac \div scale
        r == frac % scale
    IN  IF 2 * r < scale THEN q
        ELSE IF 2 * r > scale THEN q + 1
        ELSE IF q % 2 = 0 THEN q ELSE q + 1

\* dt.datetime(year, month, day, hour, minute, second, microsecond, tzinfo):
\* the fields are checked against their ranges.
PyDatetime(year, month, day, hour, minute, second, microsecond, tzinfo) ==
    IF /\ year \in 1..9999 /\ month \in 1..12 /\ day \in 1..31
       /\ hour \in 0..23 /\ minute \in 0..59 /\ second \in 0..59
       /\ microsecond \in 0..999999
    THEN Ok([type |-> "datetime", year |-> year, month |-> month, day |-> day,
             hour |-> hour, minute |-> minute, second |-> second,
             microsecond |-> microsecond, tzinfo |-> tzinfo])
    ELSE Raise("ValueError")

\* TimestampFromTicks
TimestampFromTicks(ticks) ==
    LET secs == PyFloor(ticks)
        frac == MinusSecs(ticks, secs)
        t == PyLocaltime(ticks)
        tzinfo == [type |-> "timezone", utcoffset |-> t.tm_gmtoff]
    IN  PyDatetime(t.tm_year, t.tm_mon, t.tm_mday, t.tm_hour, t.tm_min,
                   t.tm_sec, RoundMicros(frac), tzinfo)

\* datetime.date()
DateOf(d) == [type |-> "date", year |-> d.year, month |-> d.month, day |-> d.day]

\* datetime.time(): the time of day, without the zone
TimeOf(d) ==
    [type |-> "time", hour |-> d.hour, minute |-> d.minute,
     second |-> d.second, microsecond |-> d.microsecond]

\* A date taken from the UTC calendar instead of the local timestamp.
DateFromTicksUtc(ticks) ==
    LET r == TimestampFromTicks(ticks)
        date == CivilFromDays(PyFloor(ticks) \div 86400)
    IN  IF r.ok
        THEN Ok([type |-> "date", year |-> date.year, month |-> date.month,
                 day |-> date.day])
        ELSE r

\* DateFromTicks
DateFromTicks(ticks) ==
    LET r == TimestampFromTicks(ticks)
    IN  IF r.ok THEN Ok(DateOf(r.val)) ELSE r

\* TimeFromTicks
TimeFromTicks(ticks) ==
    LET r == TimestampFromTicks(ticks)
    IN  IF r.ok THEN Ok(TimeOf(r.val)) ELSE r

\* How far around each instant of BaseSecs the ticks go, in seconds.
MaxDelta == 2

\* How far below a whole second the fractions go, in TickUnit-ths.
MaxGap == 6

\* Instants: the epoch, a day before it, the end of 1999, the leap day of
\* 2000, and the end of daylight time in Europe in 2020.
BaseSecs == {0, -86400, 946684800, 951782400, 1603587600}

FracPool ==
    {0, 1, 5, 15, 4999995, 5000000} \cup {TickUnit - k : k \in 1..MaxGap}

TicksPool ==
    {[whole |-> b + d, frac |-> f] :
        b \in BaseSecs, d \in (-MaxDelta)..MaxDelta, f \in FracPool}

\* Zone rules: UTC, Central Europe, New York and India around 2020.
ZonePool ==
    {[name |-> "UTC", std |-> 0, dst |-> 0, dst_from |-> 0, dst_until |-> 0],
     [name |-> "Europe/Rome", std |-> 3600, dst |-> 7200,
      dst_from |-> 1585443600, dst_until |-> 1603587600],
     [name |-> "America/New_York", std |-> -18000, dst |-> -14400,
      dst_from |-> 1583650800, dst_until |-> 1604210400],
     [name |-> "Asia/Kolkata", std |-> 19800, dst |-> 19800,
      dst_from |-> 0, dst_until |-> 0]}

InitTicks ==
    /\ typeobj = NoneValue
    /\ ctorNames = <<>>
    /\ context = NoneValue
    /\ dumper = NoneValue
    /\ wrapper = NoneValue
    /\ tz \in ZonePool
    /\ last = [op |-> "start"]

\* TimestampFromTicks(ticks), called by a caller that holds no result
CallTimestampFromTicks ==
    /\ last.op = "start"
    /\ \E ticks \in TicksPool :
        last' = [op |-> "TimestampFromTicks", ticks |-> ticks,
                 result |-> TimestampFromTicks(ticks)]
    /\ UNCHANGED <<typeobj, ctorNames, context, dumper, wrapper, tz>>

\* DateFromTicks(ticks), called by a caller that holds no result
CallDateFromTicks ==
    /\ last.op = "start"
    /\ \E ticks \in TicksPool :
        last' = [op |-> "DateFromTicks", ticks |-> ticks,
                 result |-> DateFromTicks(ticks)]
    /\ UNCHANGED <<typeobj, ctorNames, context, dumper, wrapper, tz>>

\* TimeFromTicks(ticks), called by a caller that holds no result
CallTimeFromTicks ==
    /\ last.op = "start"
    /\ \E ticks \in TicksPool :
        last' = [op |-> "TimeFromTicks", ticks |-> ticks,
                 result |-> TimeFromTicks(ticks)]
    /\ UNCHANGED <<typeobj, ctorNames, context, dumper, wrapper, tz>>

\* The caller drops the result it holds.
DropResult ==
    /\ last.op # "start"
    /\ last' = [op |-> "start"]
    /\ UNCHANGED <<typeobj, ctorNames, context, dumper, wrapper, tz>>

NextTicks ==
    CallTimestampFromTicks \/ CallDateFromTicks \/ CallTimeFromTicks
    \/ DropResult

SpecTicks == InitTicks /\ [][NextTicks]_vars

\* The day number of a calendar date, day 0 being 1970-01-01.
DaysFromCivil(y, m, d) ==
    LET yy == IF m <= 2 THEN y - 1 ELSE y
        era == yy \div 400
        yoe == yy - era * 400
        doy == (153 * (IF m > 2 THEN m - 3 ELSE m + 9) + 2) \div 5 + d - 1
        doe == yoe * 365 + yoe \div 4 - yoe \div 100 + doy
    IN  era * 146097 + doe - 719468

\* The whole seconds since the epoch of a zone-aware datetime.
EpochSecondsOf(d) ==
    DaysFromCivil(d.year, d.month, d.day) * 86400 + d.hour * 3600
    + d.minute * 60 + d.second - d.tzinfo.utcoffset

\* datetime.timestamp() - ticks, in TickUnit-ths of a second
EpochMinusTicks(d, ticks) ==
    (EpochSecondsOf(d) - ticks.whole) * TickUnit
    + d.microsecond * (TickUnit \div 1000000) - ticks.frac

Abs(x) == IF x < 0 THEN -x ELSE x

\* The fraction of a ticks value rounds to 1,000,000 microseconds.
RoundsToNextSecond(ticks) == 2 * ticks.frac >= 2 * TickUnit - TickUnit \div 1000000

\* C4: TimestampFromTicks returns a timestamp for every ticks value, with a
\* microsecond of 0..999999; where the fraction rounds to 1,000,000
\* microseconds the microsecond is 0 and the other fields are those of the
\* next second.
C4_RoundingCarries ==
    last.op = "TimestampFromTicks" =>
        /\ last.result.ok
        /\ last.result.val.microsecond \in 0..999999
        /\ RoundsToNextSecond(last.ticks) =>
               LET t == PyLocaltime([last.ticks EXCEPT !.whole = @ + 1])
               IN  /\ last.result.val.microsecond = 0
                   /\ last.result.val.second = t.tm_sec
                   /\ last.result.val.minute = t.tm_min
                   /\ last.result.val.hour = t.tm_hour
                   /\ last.result.val.day = t.tm_mday

\* C5: the seconds since the epoch of TimestampFromTicks(t), taken with its
\* own offset, are within one microsecond of t, for every t of the range.
C5_RoundTrip ==
    last.op = "TimestampFromTicks" =>
        /\ last.result.ok
        /\ Abs(EpochMinusTicks(last.result.val, last.ticks))
               <= TickUnit \div 1000000

\* C6: DateFromTicks(t) is the date, and TimeFromTicks(t) the time of day,
\* of TimestampFromTicks(t), and each fails exactly when it fails.
C6_Projections ==
    LET ts == TimestampFromTicks(last.ticks)
    IN  /\ last.op = "DateFromTicks" =>
               /\ last.result.ok = ts.ok
               /\ last.result.ok =>
                      /\ last.result.val.year = ts.val.year
                      /\ last.result.val.month = ts.val.month
                      /\ last.result.val.day = ts.val.day
        /\ last.op = "TimeFromTicks" =>
               /\ last.result.ok = ts.ok
               /\ last.result.ok =>
                      /\ last.result.val.hour = ts.val.hour
                      /\ last.result.val.minute = ts.val.minute
                      /\ last.result.val.second = ts.val.second
                      /\ last.result.val.microsecond = ts.val.microsecond

C6_Witness ==
    /\ last.op = "DateFromTicks"
    /\ tz.name = "America/New_York"
    /\ last.ticks = [whole |-> 946684800, frac |-> 5000000]
    /\ last.result = Ok([type |-> "date", year |-> 1999, month |-> 12, day |-> 31])

\* A supporting fact: where a timestamp is returned, its seconds since the
\* epoch are within half a microsecond of the ticks, and the fraction did not
\* round to the next second.
TicksSanity ==
    last.op = "TimestampFromTicks" /\ last.result.ok =>
        /\ 2 * Abs(EpochMinusTicks(last.result.val, last.ticks))
               <= TickUnit \div 1000000
        /\ ~RoundsToNextSecond(last.ticks)
====
